---- MODULE Spec2Model ----
(***************************************************************************)
(* cppforge: the preset resolver and build driver of cppforge/generate.py. *)
(* One invocation of the tool runs one of generate_and_build, build, run   *)
(* or build_and_run against the preset document CMakePresets.json, the     *)
(* project descriptor CMakeLists.txt and the filesystem of the working     *)
(* directory.  Strings are TLA+ strings handled character by character, so *)
(* that lower(), `in`, startswith(), strip() and split() are computed.     *)
(***************************************************************************)
EXTENDS Integers, Sequences, FiniteSets, TLC

VARIABLES
    doc,          \* CMakePresets.json: [file, data]
    descriptor,   \* CMakeLists.txt: [file, lines]
    fs,           \* the other paths of the working directory: path -> kind
    op,           \* the function the current invocation runs
    pc,           \* its position
    preset_name,  \* argument --preset
    exe_arg,      \* argument --executable as given ("" is None)
    executable,   \* local executable: the argument, later the resolved path
    export_cc,    \* argument export_compile_commands
    preset,       \* local preset / preset_data
    generator,    \* local generator (lower-cased)
    build_dir,    \* local build_dir
    calls,        \* the subprocess invocations of this invocation, in order
    outcome,      \* [kind, how, printed] of the invocation
    fs0,          \* the filesystem as the invocation found it
    session,      \* what earlier invocations of the session did (SpecCompose)
    which_docker, \* shutil.which("docker") finds docker
    compose_file, \* spinup argument compose_file
    container_name \* spinup argument container_name

vars == <<doc, descriptor, fs, op, pc, preset_name, exe_arg, executable, export_cc,
          preset, generator, build_dir, calls, outcome, fs0, session,
          which_docker, compose_file, container_name>>

(***************************************************************************)
(* Bounds of the model.                                                    *)
(***************************************************************************)
\* subprocesses exit with a status in 0..MaxExitStatus
MaxExitStatus == 1
\* CMakeLists.txt has at most MaxLines lines in SpecExtract
MaxLines == 2

(***************************************************************************)
(* Python string primitives.                                               *)
(***************************************************************************)
UpperLetters == "ABCDEFGHIJKLMNOPQRSTUVWXYZ"
LowerLetters == "abcdefghijklmnopqrstuvwxyz"

CharAt(s, i) == SubSeq(s, i, i)

IsSpace(c) == c \in {" ", "\t", "\n"}

\* the lower-case letter of each upper-case letter
LowerTable ==
    [c \in {CharAt(UpperLetters, i) : i \in 1..Len(UpperLetters)} |->
        CharAt(LowerLetters, CHOOSE i \in 1..Len(UpperLetters) : CharAt(UpperLetters, i) = c)]

\* str.lower() on one character
LowerChar(c) == IF c \in DOMAIN LowerTable THEN LowerTable[c] ELSE c

RECURSIVE Lower(_)
\* str.lower()
Lower(s) == IF Len(s) = 0 THEN "" ELSE LowerChar(CharAt(s, 1)) \o Lower(SubSeq(s, 2, Len(s)))

\* sub in s
Contains(s, sub) ==
    \E i \in 1..(Len(s) - Len(sub) + 1) : SubSeq(s, i, i + Len(sub) - 1) = sub

\* s.startswith(p)
StartsWith(s, p) == Len(s) >= Len(p) /\ SubSeq(s, 1, Len(p)) = p

RECURSIVE LStrip(_)
LStrip(s) ==
    IF Len(s) > 0 /\ IsSpace(CharAt(s, 1)) THEN LStrip(SubSeq(s, 2, Len(s))) ELSE s

RECURSIVE RStrip(_)
RStrip(s) ==
    IF Len(s) > 0 /\ IsSpace(CharAt(s, Len(s))) THEN RStrip(SubSeq(s, 1, Len(s) - 1)) ELSE s

\* str.strip()
Strip(s) == RStrip(LStrip(s))

\* s.split(sep)[0] for a one-character sep: the text before the first sep
SplitHead(s, sep) ==
    IF \E i \in 1..Len(s) : CharAt(s, i) = sep
    THEN LET k == CHOOSE i \in 1..Len(s) :
                      /\ CharAt(s, i) = sep
                      /\ \A j \in 1..(i - 1) : CharAt(s, j) # sep
         IN  SubSeq(s, 1, k - 1)
    ELSE s

\* s.split()[0] for s with a non-space character: the first whitespace-delimited token
FirstToken(s) ==
    LET t == LStrip(s)
    IN  IF \E i \in 1..Len(t) : IsSpace(CharAt(t, i))
        THEN LET k == CHOOSE i \in 1..Len(t) :
                          /\ IsSpace(CharAt(t, i))
                          /\ \A j \in 1..(i - 1) : ~IsSpace(CharAt(t, j))
             IN  SubSeq(t, 1, k - 1)
        ELSE t

\* dict.get(key, default)
Get(d, key, default) == IF key \in DOMAIN d THEN d[key] ELSE default

\* str(Path(dir) / name); joining the empty string leaves the path unchanged
JoinPath(dir, name) == IF name = "" THEN dir ELSE dir \o "/" \o name

(***************************************************************************)
(* The inputs: preset documents, project descriptors, filesystems.         *)
(***************************************************************************)
NoPreset == [name |-> ""]

GeneratorFields ==
    { <<>>,
      [generator |-> "Ninja"],
      [generator |-> "Ninja Multi-Config"],
      [generator |-> "Unix Makefiles"],
      [generator |-> "Make+Ninja"],
      [generator |-> "Visual Studio 17 2022"] }

DirFields ==
    { <<>>,
      [binaryDir |-> "out/dbg"],
      [buildDir |-> "out/dbg"],
      [binaryDir |-> "out/dbg", buildDir |-> "build"] }

\* the union of two records with disjoint fields
Merge(a, b) == [k \in DOMAIN a \cup DOMAIN b |-> IF k \in DOMAIN a THEN a[k] ELSE b[k]]

DbgPresets ==
    { Merge([name |-> "dbg"], Merge(g, d)) : g \in GeneratorFields, d \in DirFields }

RelPreset == [name |-> "rel", generator |-> "Unix Makefiles", binaryDir |-> "build"]

\* the parsed documents: presets under configurePresets, under presets, or both
Documents ==
    UNION { { [configurePresets |-> <<p, RelPreset>>],
              [presets |-> <<p, RelPreset>>],
              [presets |-> <<RelPreset>>, configurePresets |-> <<p>>],
              [presets |-> <<>>, configurePresets |-> <<p, RelPreset>>] } : p \in DbgPresets }

DocFiles ==
    { [file |-> "none", data |-> <<>>], [file |-> "malformed", data |-> <<>>] }
    \cup { [file |-> "json", data |-> d] : d \in Documents }

PresetNames == {"dbg", "rel"}

Descriptors ==
    { [file |-> FALSE, lines |-> <<>>],
      [file |-> TRUE, lines |-> <<"cmake_minimum_required(VERSION 3.20)", "project(MyApp VERSION 1.0)">>],
      [file |-> TRUE, lines |-> <<"cmake_minimum_required(VERSION 3.20)", "add_executable(MyApp main.cpp)">>] }

DirPaths == {"build", "out/dbg"}
ExplicitExecutable == "bin/app"
FsPaths == DirPaths \cup { JoinPath(d, "MyApp") : d \in DirPaths } \cup {ExplicitExecutable}

\* a file lies in a directory; nothing else is constrained
Filesystems ==
    { f \in [FsPaths -> {"none", "dir", "file"}] :
        /\ f["out/dbg"] # "file"
        /\ \A d \in DirPaths :
              /\ f[JoinPath(d, "MyApp")] # "dir"
              /\ f[JoinPath(d, "MyApp")] = "file" => f[d] = "dir" }

\* the kind of a path: "none", "dir" or "file"
Kind(f, path) == IF path \in DOMAIN f THEN f[path] ELSE "none"

\* Path(path).exists()
PathExists(f, path) == Kind(f, path) # "none"

\* Path(path).is_file()
IsFile(f, path) == Kind(f, path) = "file"

\* the existence check left out: the descriptor is taken to be there
DescriptorExistsUnchecked(d) == TRUE

\* Path("CMakeLists.txt").exists()
DescriptorExists(d) == d.file

ExitStatuses == 0..MaxExitStatus

(***************************************************************************)
(* The functions of generate.py.                                           *)
(***************************************************************************)
\* the first record of a list whose name is the requested one
FirstNamed(presets, name) ==
    IF \E i \in 1..Len(presets) : presets[i].name = name
    THEN presets[CHOOSE i \in 1..Len(presets) :
                     /\ presets[i].name = name
                     /\ \A j \in 1..(i - 1) : presets[j].name # name]
    ELSE NoPreset

\* find_cmake_presets: [err, how, printed, preset]
find_cmake_presets(d, name) ==
    IF d.file = "none"
    THEN [err |-> "DocumentNotFound", how |-> "exited", printed |-> TRUE, preset |-> NoPreset]
    ELSE IF d.file = "malformed"
    THEN [err |-> "ParseError", how |-> "raised", printed |-> FALSE, preset |-> NoPreset]
    ELSE LET presets == Get(d.data, "presets", Get(d.data, "configurePresets", <<>>))
             found == FirstNamed(presets, name)
         IN  IF found = NoPreset
             THEN [err |-> "PresetNotFound", how |-> "exited", printed |-> TRUE, preset |-> NoPreset]
             ELSE [err |-> "", how |-> "running", printed |-> FALSE, preset |-> found]

\* read_preset_data with the except clause of its callers: [err, how, printed, preset]
read_preset_data(d, name) ==
    IF d.file = "none"
    THEN [err |-> "DocumentNotFound", how |-> "returned", printed |-> TRUE, preset |-> NoPreset]
    ELSE IF d.file = "malformed"
    THEN [err |-> "ParseError", how |-> "returned", printed |-> TRUE, preset |-> NoPreset]
    ELSE LET presets == Get(d.data, "configurePresets", <<>>)
             found == FirstNamed(presets, name)
         IN  IF found = NoPreset
             THEN [err |-> "PresetNotFound", how |-> "returned", printed |-> TRUE, preset |-> NoPreset]
             ELSE [err |-> "", how |-> "running", printed |-> FALSE, preset |-> found]

\* the build directory generate_and_build takes from the preset
ConfigureBuildDir(p) == Get(p, "buildDir", "build")

\* the build directory build, run and build_and_run take from the preset
BuildDirOf(p) == Get(p, "binaryDir", "build")

\* the lower-cased generator of the preset
GeneratorOf(p) == Lower(Get(p, "generator", "Ninja"))

\* the driver generate_and_build selects
ConfigureDriver(gen) ==
    IF gen = "ninja" THEN "ninja"
    ELSE IF Contains(gen, "make") THEN "make"
    ELSE "unsupported"

\* the driver build and build_and_run select
BuildDriver(gen) ==
    IF Contains(gen, "ninja") THEN "ninja"
    ELSE IF Contains(gen, "make") THEN "make"
    ELSE "unsupported"

ProjectPrefix == "project("

\* the name a project( line gives; "" when there is nothing between the parentheses
ProjectLineName(line) ==
    Strip(SplitHead(SubSeq(line, Len(ProjectPrefix) + 1, Len(line)), ")"))

\* the name returned for a project( line with text between the parentheses
ProjectNameOfLine(line) == SplitHead(FirstToken(ProjectLineName(line)), "/")

RECURSIVE extract_first_project_line(_)
\* an extraction that stops at the first project( line, named or not
extract_first_project_line(lines) ==
    IF Len(lines) = 0 THEN [found |-> FALSE, name |-> ""]
    ELSE LET line == Strip(Head(lines))
         IN  IF StartsWith(Lower(line), ProjectPrefix)
             THEN [found |-> ProjectLineName(line) # "", name |-> ProjectNameOfLine(line)]
             ELSE extract_first_project_line(Tail(lines))

RECURSIVE extract_project_name(_)
\* extract_project_name over the lines of the file: [found, name]
extract_project_name(lines) ==
    IF Len(lines) = 0 THEN [found |-> FALSE, name |-> ""]
    ELSE LET line == Strip(Head(lines))
         IN  IF StartsWith(Lower(line), ProjectPrefix) /\ ProjectLineName(line) # ""
             THEN [found |-> TRUE, name |-> ProjectNameOfLine(line)]
             ELSE extract_project_name(Tail(lines))

(***************************************************************************)
(* The state machine: one invocation at a time, step by step.              *)
(***************************************************************************)
Running == [kind |-> "none", how |-> "running", printed |-> FALSE]

\* no invocation is in progress
Idle ==
    /\ op = "none"
    /\ pc = "idle"
    /\ preset_name = ""
    /\ exe_arg = ""
    /\ executable = ""
    /\ export_cc = FALSE
    /\ preset = NoPreset
    /\ generator = ""
    /\ build_dir = ""
    /\ calls = <<>>
    /\ outcome = Running
    /\ fs0 = fs
    /\ compose_file = ""
    /\ container_name = ""

\* nothing has been observed of the session
NoRecord == [op |-> "none"]
EmptySession ==
    [configured |-> NoRecord, build |-> NoRecord, run |-> NoRecord, bar |-> NoRecord]

Init ==
    /\ doc \in DocFiles
    /\ descriptor \in Descriptors
    /\ fs \in Filesystems
    /\ which_docker = TRUE
    /\ session = EmptySession
    /\ Idle

Env == <<doc, descriptor, which_docker, session>>
Args == <<op, preset_name, exe_arg, export_cc, fs0, compose_file, container_name>>

\* the operation ends: its outcome, and how control leaves it
Finish(kind, how, printed) ==
    /\ pc' = "done"
    /\ outcome' = [kind |-> kind, how |-> how, printed |-> printed]

\* a subprocess is run to completion with the given exit status
Invoke(argv, status) == calls' = Append(calls, [argv |-> argv, status |-> status])

\* main: the command line selects the operation and its arguments
Start(o, name, exe, exp) ==
    /\ pc = "idle"
    /\ op' = o
    /\ preset_name' = name
    /\ exe_arg' = exe
    /\ executable' = exe
    /\ export_cc' = exp
    /\ pc' = "lookup"
    /\ preset' = NoPreset
    /\ generator' = ""
    /\ build_dir' = ""
    /\ calls' = <<>>
    /\ outcome' = Running
    /\ fs0' = fs
    /\ UNCHANGED <<doc, descriptor, fs, which_docker, session, compose_file, container_name>>

\* generate_and_build: find the preset, create its build directory
ConfigureFindPreset ==
    /\ op = "generate" /\ pc = "lookup"
    /\ LET r == find_cmake_presets(doc, preset_name)
           dir == ConfigureBuildDir(r.preset)
       IN  IF r.err # ""
           THEN /\ Finish(r.err, r.how, r.printed)
                /\ UNCHANGED <<preset, build_dir, fs>>
           ELSE /\ preset' = r.preset
                /\ build_dir' = dir
                /\ IF Kind(fs, dir) = "file"
                   THEN /\ Finish("FileExistsError", "raised", FALSE)
                        /\ UNCHANGED fs
                   ELSE /\ fs' = [fs EXCEPT ![dir] = "dir"]
                        /\ pc' = "cmake"
                        /\ UNCHANGED outcome
    /\ UNCHANGED <<Env, Args, executable, generator, calls>>

\* what a successful cmake --preset run leaves on disk: nothing the model
\* tracks, or the binaryDir of the preset
CMakeEffects(f, p) ==
    {f} \cup IF "binaryDir" \in DOMAIN p /\ Kind(f, p.binaryDir) = "none"
             THEN {[f EXCEPT ![p.binaryDir] = "dir"]}
             ELSE {}

\* the cmake command line
PresetCommand(name, exp) ==
    <<"cmake", "--preset=" \o name>>
        \o IF exp THEN <<"-DCMAKE_EXPORT_COMPILE_COMMANDS=ON">> ELSE <<>>

\* the configuration subprocess run without check=True: its exit status is
\* ignored
ConfigureRunCMakeUnchecked ==
    /\ op = "generate" /\ pc = "cmake"
    /\ \E status \in ExitStatuses :
          /\ Invoke(PresetCommand(preset_name, export_cc), status)
          /\ fs' \in CMakeEffects(fs, preset)
          /\ generator' = GeneratorOf(preset)
          /\ pc' = "driver"
          /\ UNCHANGED outcome
    /\ UNCHANGED <<Env, Args, executable, preset, build_dir>>

\* generate_and_build: the configuration subprocess, check=True
ConfigureRunCMake ==
    /\ op = "generate" /\ pc = "cmake"
    /\ \E status \in ExitStatuses :
          /\ Invoke(PresetCommand(preset_name, export_cc), status)
          /\ IF status # 0
             THEN /\ Finish("SubprocessFailed", "raised", FALSE)
                  /\ UNCHANGED <<fs, generator>>
             ELSE /\ fs' \in CMakeEffects(fs, preset)
                  /\ generator' = GeneratorOf(preset)
                  /\ pc' = "driver"
                  /\ UNCHANGED outcome
    /\ UNCHANGED <<Env, Args, executable, preset, build_dir>>

\* generate_and_build: the chained build
ConfigureBuild ==
    /\ op = "generate" /\ pc = "driver"
    /\ LET driver == ConfigureDriver(generator)
       IN  IF driver = "unsupported"
           THEN /\ Finish("UnsupportedGenerator", "raised", FALSE)
                /\ UNCHANGED calls
           ELSE \E status \in ExitStatuses :
                   /\ Invoke(<<driver, "-C", build_dir>>, status)
                   /\ IF status # 0
                      THEN Finish("SubprocessFailed", "raised", FALSE)
                      ELSE Finish("Success", "returned", FALSE)
    /\ UNCHANGED <<Env, fs, Args, executable, preset, generator, build_dir>>

\* build_and_run: read the preset data inside try/except
BuildAndRunReadPreset ==
    /\ op = "build-run" /\ pc = "lookup"
    /\ LET r == read_preset_data(doc, preset_name)
       IN  IF r.err # ""
           THEN /\ Finish(r.err, r.how, r.printed)
                /\ UNCHANGED <<preset, generator, build_dir>>
           ELSE /\ preset' = r.preset
                /\ generator' = GeneratorOf(r.preset)
                /\ build_dir' = BuildDirOf(r.preset)
                /\ pc' = "checkdir"
                /\ UNCHANGED outcome
    /\ UNCHANGED <<Env, fs, Args, executable, calls>>

\* build_and_run: validate the build directory
BuildAndRunCheckDir ==
    /\ op = "build-run" /\ pc = "checkdir"
    /\ IF ~PathExists(fs, build_dir)
       THEN Finish("DirectoryMissing", "returned", TRUE)
       ELSE /\ pc' = "driver"
            /\ UNCHANGED outcome
    /\ UNCHANGED <<Env, fs, Args, executable, preset, generator, build_dir, calls>>

\* the build driver run without check=True: its exit status is ignored
BuildAndRunDriverUnchecked ==
    /\ op = "build-run" /\ pc = "driver"
    /\ LET driver == BuildDriver(generator)
       IN  IF driver = "unsupported"
           THEN /\ Finish("UnsupportedGenerator", "returned", TRUE)
                /\ UNCHANGED calls
           ELSE \E status \in ExitStatuses :
                   /\ Invoke(<<driver, "-C", build_dir>>, status)
                   /\ pc' = "resolve"
                   /\ UNCHANGED outcome
    /\ UNCHANGED <<Env, fs, Args, executable, preset, generator, build_dir>>

\* build_and_run: select the driver and run it, check=True
BuildAndRunDriver ==
    /\ op = "build-run" /\ pc = "driver"
    /\ LET driver == BuildDriver(generator)
       IN  IF driver = "unsupported"
           THEN /\ Finish("UnsupportedGenerator", "returned", TRUE)
                /\ UNCHANGED calls
           ELSE \E status \in ExitStatuses :
                   /\ Invoke(<<driver, "-C", build_dir>>, status)
                   /\ IF status # 0
                      THEN Finish("SubprocessFailed", "raised", FALSE)
                      ELSE /\ pc' = "resolve"
                           /\ UNCHANGED outcome
    /\ UNCHANGED <<Env, fs, Args, executable, preset, generator, build_dir>>

\* build_and_run: the executable, given or inferred from CMakeLists.txt
BuildAndRunResolveExecutable ==
    /\ op = "build-run" /\ pc = "resolve"
    /\ IF executable # ""
       THEN /\ pc' = "execute"
            /\ UNCHANGED <<executable, outcome>>
       ELSE IF ~DescriptorExists(descriptor)
       THEN /\ Finish("DescriptorNotFound", "returned", TRUE)
            /\ UNCHANGED executable
       ELSE LET r == extract_project_name(descriptor.lines)
            IN  IF ~r.found
                THEN /\ Finish("ProjectNameNotFound", "returned", TRUE)
                     /\ UNCHANGED executable
                ELSE /\ executable' = JoinPath(build_dir, r.name)
                     /\ pc' = "execute"
                     /\ UNCHANGED outcome
    /\ UNCHANGED <<Env, fs, Args, preset, generator, build_dir, calls>>

\* the target run with check=True in build_and_run: a non-zero exit raises
BuildAndRunExecuteChecked ==
    /\ op = "build-run" /\ pc = "execute"
    /\ IF ~IsFile(fs, executable)
       THEN /\ Finish("ExecutableMissing", "returned", TRUE)
            /\ UNCHANGED calls
       ELSE \E status \in ExitStatuses :
               /\ Invoke(<<executable>>, status)
               /\ IF status # 0
                  THEN Finish("SubprocessFailed", "raised", FALSE)
                  ELSE Finish("Success", "returned", FALSE)
    /\ UNCHANGED <<Env, fs, Args, executable, preset, generator, build_dir>>

\* build_and_run: validate the executable and run it, without check
BuildAndRunExecute ==
    /\ op = "build-run" /\ pc = "execute"
    /\ IF ~IsFile(fs, executable)
       THEN /\ Finish("ExecutableMissing", "returned", TRUE)
            /\ UNCHANGED calls
       ELSE \E status \in ExitStatuses :
               /\ Invoke(<<executable>>, status)
               /\ Finish("Success", "returned", FALSE)
    /\ UNCHANGED <<Env, fs, Args, executable, preset, generator, build_dir>>

\* the except clause without its return: build goes on with the defaults
BuildReadPresetNoReturn ==
    /\ op = "build" /\ pc = "lookup"
    /\ LET r == read_preset_data(doc, preset_name)
       IN  /\ preset' = r.preset
           /\ generator' = GeneratorOf(r.preset)
           /\ build_dir' = BuildDirOf(r.preset)
           /\ pc' = "checkdir"
           /\ UNCHANGED outcome
    /\ UNCHANGED <<Env, fs, Args, executable, calls>>

\* build: read the preset data inside try/except
BuildReadPreset ==
    /\ op = "build" /\ pc = "lookup"
    /\ LET r == read_preset_data(doc, preset_name)
       IN  IF r.err # ""
           THEN /\ Finish(r.err, r.how, r.printed)
                /\ UNCHANGED <<preset, generator, build_dir>>
           ELSE /\ preset' = r.preset
                /\ generator' = GeneratorOf(r.preset)
                /\ build_dir' = BuildDirOf(r.preset)
                /\ pc' = "checkdir"
                /\ UNCHANGED outcome
    /\ UNCHANGED <<Env, fs, Args, executable, calls>>

\* build: validate the build directory
BuildCheckDir ==
    /\ op = "build" /\ pc = "checkdir"
    /\ IF ~PathExists(fs, build_dir)
       THEN Finish("DirectoryMissing", "returned", TRUE)
       ELSE /\ pc' = "driver"
            /\ UNCHANGED outcome
    /\ UNCHANGED <<Env, fs, Args, executable, preset, generator, build_dir, calls>>

\* build: select the driver and run it, check=True
BuildDriverStep ==
    /\ op = "build" /\ pc = "driver"
    /\ LET driver == BuildDriver(generator)
       IN  IF driver = "unsupported"
           THEN /\ Finish("UnsupportedGenerator", "returned", TRUE)
                /\ UNCHANGED calls
           ELSE \E status \in ExitStatuses :
                   /\ Invoke(<<driver, "-C", build_dir>>, status)
                   /\ IF status # 0
                      THEN Finish("SubprocessFailed", "raised", FALSE)
                      ELSE Finish("Success", "returned", FALSE)
    /\ UNCHANGED <<Env, fs, Args, executable, preset, generator, build_dir>>

\* run: read the preset data inside try/except
RunReadPreset ==
    /\ op = "run" /\ pc = "lookup"
    /\ LET r == read_preset_data(doc, preset_name)
       IN  IF r.err # ""
           THEN /\ Finish(r.err, r.how, r.printed)
                /\ UNCHANGED <<preset, generator, build_dir>>
           ELSE /\ preset' = r.preset
                /\ generator' = generator
                /\ build_dir' = BuildDirOf(r.preset)
                /\ pc' = "checkdir"
                /\ UNCHANGED outcome
    /\ UNCHANGED <<Env, fs, Args, executable, calls>>

\* run: validate the build directory
RunCheckDir ==
    /\ op = "run" /\ pc = "checkdir"
    /\ IF ~PathExists(fs, build_dir)
       THEN Finish("DirectoryMissing", "returned", TRUE)
       ELSE /\ pc' = "resolve"
            /\ UNCHANGED outcome
    /\ UNCHANGED <<Env, fs, Args, executable, preset, generator, build_dir, calls>>

\* run: the executable, given or inferred from CMakeLists.txt
RunResolveExecutable ==
    /\ op = "run" /\ pc = "resolve"
    /\ IF executable # ""
       THEN /\ pc' = "execute"
            /\ UNCHANGED <<executable, outcome>>
       ELSE IF ~DescriptorExists(descriptor)
       THEN /\ Finish("DescriptorNotFound", "returned", TRUE)
            /\ UNCHANGED executable
       ELSE LET r == extract_project_name(descriptor.lines)
            IN  IF ~r.found
                THEN /\ Finish("ProjectNameNotFound", "returned", TRUE)
                     /\ UNCHANGED executable
                ELSE /\ executable' = JoinPath(build_dir, r.name)
                     /\ pc' = "execute"
                     /\ UNCHANGED outcome
    /\ UNCHANGED <<Env, fs, Args, preset, generator, build_dir, calls>>

\* the target run with check=True: a non-zero exit raises
RunExecuteChecked ==
    /\ op = "run" /\ pc = "execute"
    /\ IF ~IsFile(fs, executable)
       THEN /\ Finish("ExecutableMissing", "returned", TRUE)
            /\ UNCHANGED calls
       ELSE \E status \in ExitStatuses :
               /\ Invoke(<<executable>>, status)
               /\ IF status # 0
                  THEN Finish("SubprocessFailed", "raised", FALSE)
                  ELSE Finish("Success", "returned", FALSE)
    /\ UNCHANGED <<Env, fs, Args, executable, preset, generator, build_dir>>

\* run: validate the executable and run it, without check
RunExecute ==
    /\ op = "run" /\ pc = "execute"
    /\ IF ~IsFile(fs, executable)
       THEN /\ Finish("ExecutableMissing", "returned", TRUE)
            /\ UNCHANGED calls
       ELSE \E status \in ExitStatuses :
               /\ Invoke(<<executable>>, status)
               /\ Finish("Success", "returned", FALSE)
    /\ UNCHANGED <<Env, fs, Args, executable, preset, generator, build_dir>>

\* the process has ended: nothing of the invocation is left but the files
ProcessEnds ==
    /\ pc = "done"
    /\ pc' = "idle"
    /\ op' = "none"
    /\ preset_name' = ""
    /\ exe_arg' = ""
    /\ executable' = ""
    /\ export_cc' = FALSE
    /\ preset' = NoPreset
    /\ generator' = ""
    /\ build_dir' = ""
    /\ calls' = <<>>
    /\ outcome' = Running
    /\ fs0' = fs
    /\ compose_file' = ""
    /\ container_name' = ""
    /\ UNCHANGED <<doc, descriptor, fs, which_docker>>

\* main returns (or the interpreter ends): control is back with the shell
ReturnToShell ==
    /\ ProcessEnds
    /\ UNCHANGED session

StartGenerate == \E name \in PresetNames, exp \in BOOLEAN : Start("generate", name, "", exp)
StartBuild == \E name \in PresetNames : Start("build", name, "", FALSE)
StartRun == \E name \in PresetNames, exe \in {"", ExplicitExecutable} : Start("run", name, exe, FALSE)
StartBuildRun == \E name \in PresetNames, exe \in {"", ExplicitExecutable} : Start("build-run", name, exe, FALSE)

Next ==
    \/ StartGenerate
    \/ StartBuild
    \/ StartRun
    \/ StartBuildRun
    \/ ConfigureFindPreset
    \/ ConfigureRunCMake
    \/ ConfigureBuild
    \/ BuildAndRunReadPreset
    \/ BuildAndRunCheckDir
    \/ BuildAndRunDriver
    \/ BuildAndRunResolveExecutable
    \/ BuildAndRunExecute
    \/ BuildReadPreset
    \/ BuildCheckDir
    \/ BuildDriverStep
    \/ RunReadPreset
    \/ RunCheckDir
    \/ RunResolveExecutable
    \/ RunExecute
    \/ ReturnToShell

Spec == Init /\ [][Next]_vars

(***************************************************************************)
(* The same program over many project descriptors and one preset document. *)
(***************************************************************************)
LinePool ==
    { "project(MyApp VERSION 1.0)",
      "project(some/Nested/Name)",
      "  PROJECT( Tool )",
      "project()",
      "add_executable(MyApp main.cpp)",
      "# project(Hidden)" }

RECURSIVE SeqsUpTo(_, _)
\* the sequences over S of length at most n
SeqsUpTo(S, n) ==
    IF n = 0 THEN {<<>>}
    ELSE LET shorter == SeqsUpTo(S, n - 1)
         IN  shorter \cup { Append(q, x) : q \in shorter, x \in S }

ExtractDescriptors ==
    { [file |-> FALSE, lines |-> <<>>] }
    \cup { [file |-> TRUE, lines |-> ls] : ls \in SeqsUpTo(LinePool, MaxLines) }

ExtractDocument ==
    [file |-> "json",
     data |-> [configurePresets |-> << [name |-> "dbg", binaryDir |-> "out/dbg"], RelPreset >>]]

InitExtract ==
    /\ doc = ExtractDocument
    /\ descriptor \in ExtractDescriptors
    /\ fs \in Filesystems
    /\ which_docker = TRUE
    /\ session = EmptySession
    /\ Idle

SpecExtract == InitExtract /\ [][Next]_vars

(***************************************************************************)
(* Sessions: several invocations in one working directory, with a record   *)
(* of what the earlier ones did.  A slot that is Closed is never filled.   *)
(***************************************************************************)
Closed == [op |-> "off"]

\* what the invocation that ends did
Observation ==
    [op |-> op, name |-> preset_name, exe |-> exe_arg, calls |-> calls,
     outcome |-> outcome, fs0 |-> fs0, dir |-> build_dir]

Filled(slot) == slot # NoRecord /\ slot # Closed

\* the first successful generate; the first build; then the first run of the
\* same preset in the same filesystem; then the first build-run of the same
\* preset and executable in the same filesystem
Record(ss) ==
    IF op = "generate" /\ outcome.kind = "Success" /\ ss.configured = NoRecord
    THEN [ss EXCEPT !.configured = Observation]
    ELSE IF op = "build" /\ ss.build = NoRecord
    THEN [ss EXCEPT !.build = Observation]
    ELSE IF /\ op = "run" /\ Filled(ss.build) /\ ss.run = NoRecord
            /\ preset_name = ss.build.name /\ fs0 = ss.build.fs0
    THEN [ss EXCEPT !.run = Observation]
    ELSE IF /\ op = "build-run" /\ Filled(ss.run) /\ ss.bar = NoRecord
            /\ preset_name = ss.run.name /\ exe_arg = ss.run.exe /\ fs0 = ss.run.fs0
    THEN [ss EXCEPT !.bar = Observation]
    ELSE ss

\* control is back with the shell, and the session remembers the invocation
ReturnAndRecord ==
    /\ ProcessEnds
    /\ session' = Record(session)

NextSession ==
    \/ StartGenerate
    \/ StartBuild
    \/ StartRun
    \/ StartBuildRun
    \/ ConfigureFindPreset
    \/ ConfigureRunCMake
    \/ ConfigureBuild
    \/ BuildAndRunReadPreset
    \/ BuildAndRunCheckDir
    \/ BuildAndRunDriver
    \/ BuildAndRunResolveExecutable
    \/ BuildAndRunExecute
    \/ BuildReadPreset
    \/ BuildCheckDir
    \/ BuildDriverStep
    \/ RunReadPreset
    \/ RunCheckDir
    \/ RunResolveExecutable
    \/ RunExecute
    \/ ReturnAndRecord

\* sessions that remember build, run and build-run
ComposeDocFiles ==
    { [file |-> "none", data |-> <<>>] }
    \cup { [file |-> "json", data |-> [configurePresets |-> <<Merge([name |-> "dbg"], Merge(g, d)), RelPreset>>]] :
              g \in { <<>>, [generator |-> "Visual Studio 17 2022"] },
              d \in { <<>>, [binaryDir |-> "out/dbg"] } }

InitCompose ==
    /\ doc \in ComposeDocFiles
    /\ descriptor \in Descriptors
    /\ fs \in { f \in Filesystems : f["build"] # "file" /\ f[ExplicitExecutable] # "dir" }
    /\ which_docker = TRUE
    /\ session = [EmptySession EXCEPT !.configured = Closed]
    /\ Idle

SpecCompose == InitCompose /\ [][NextSession]_vars

\* sessions that remember the first successful generate
ConfigureDocFiles ==
    { d \in DocFiles : d.file = "json" => Get(d.data[CHOOSE k \in DOMAIN d.data : d.data[k] # <<>>][1], "generator", "Ninja") = "Ninja" }

InitConfigure ==
    /\ doc \in ConfigureDocFiles
    /\ descriptor \in Descriptors
    /\ fs \in Filesystems
    /\ which_docker = TRUE
    /\ session = [EmptySession EXCEPT !.build = Closed]
    /\ Idle

SpecConfigure == InitConfigure /\ [][NextSession]_vars

(***************************************************************************)
(* docker_spinup.py: spinup(compose_file, container_name), called with its *)
(* arguments.  A keyboard interrupt can arrive at any point of the call.   *)
(***************************************************************************)
ComposeFiles == {"docker-compose.yml", "compose.dev.yml"}
ContainerNames == {"gcc-clang-dev", "dev"}

UpCommand(cf) == <<"docker", "compose", "-f", cf, "up", "-d", "dev">>
ExecCommand(cn) == <<"docker", "exec", "-it", cn, "zsh">>
DownCommand(cf) == <<"docker", "compose", "-f", cf, "down">>
VersionCommand == <<"docker", "compose", "version">>

\* what a step of spinup leaves alone
SpinupFrame == <<Env, Args, fs, executable, preset, generator, build_dir>>

\* an exception that waits for the finally clause to end
Pending(kind) == outcome' = [kind |-> kind, how |-> "pending", printed |-> FALSE]

\* spinup is called
StartSpinup ==
    \E cf \in ComposeFiles, cn \in ContainerNames :
        /\ pc = "idle"
        /\ op' = "spinup"
        /\ compose_file' = cf
        /\ container_name' = cn
        /\ pc' = "which"
        /\ fs0' = fs
        /\ UNCHANGED <<Env, fs, preset_name, exe_arg, executable, export_cc,
                       preset, generator, build_dir, calls, outcome>>

\* shutil.which("docker")
SpinupCheckDocker ==
    /\ op = "spinup" /\ pc = "which"
    /\ IF ~which_docker
       THEN Finish("DockerMissing", "exited", TRUE)
       ELSE pc' = "version" /\ UNCHANGED outcome
    /\ UNCHANGED <<SpinupFrame, calls>>

\* docker compose version, check=True, CalledProcessError caught
SpinupCheckCompose ==
    /\ op = "spinup" /\ pc = "version"
    /\ \E status \in ExitStatuses :
          /\ Invoke(VersionCommand, status)
          /\ IF status # 0
             THEN Finish("ComposeMissing", "exited", TRUE)
             ELSE pc' = "file" /\ UNCHANGED outcome
    /\ UNCHANGED SpinupFrame

\* Path(compose_file).is_file()
SpinupCheckFile ==
    /\ op = "spinup" /\ pc = "file"
    /\ IF ~IsFile(fs, compose_file)
       THEN Finish("ComposeFileMissing", "exited", TRUE)
       ELSE pc' = "up" /\ UNCHANGED outcome
    /\ UNCHANGED <<SpinupFrame, calls>>

\* a keyboard interrupt during the checks, outside the try statement
SpinupInterruptedInChecks ==
    /\ op = "spinup" /\ pc \in {"which", "version", "file"}
    /\ Finish("Interrupted", "raised", FALSE)
    /\ UNCHANGED <<SpinupFrame, calls>>

\* docker compose up, check=True: CalledProcessError passes the except clause
SpinupUp ==
    /\ op = "spinup" /\ pc = "up"
    /\ \E status \in ExitStatuses :
          /\ Invoke(UpCommand(compose_file), status)
          /\ IF status # 0
             THEN pc' = "finally" /\ Pending("SubprocessFailed")
             ELSE pc' = "exec" /\ UNCHANGED outcome
    /\ UNCHANGED SpinupFrame

\* docker exec into the container, check=True
SpinupExec ==
    /\ op = "spinup" /\ pc = "exec"
    /\ \E status \in ExitStatuses :
          /\ Invoke(ExecCommand(container_name), status)
          /\ pc' = "finally"
          /\ IF status # 0
             THEN Pending("SubprocessFailed")
             ELSE UNCHANGED outcome
    /\ UNCHANGED SpinupFrame

\* a keyboard interrupt in the try block, before the subprocess of the
\* statement is started or while it runs: caught by the except clause
SpinupInterruptedInTry ==
    /\ op = "spinup" /\ pc \in {"up", "exec"}
    /\ \E started \in BOOLEAN, status \in ExitStatuses :
          calls' = IF ~started THEN calls
                   ELSE Append(calls, [argv |-> IF pc = "up" THEN UpCommand(compose_file)
                                                ELSE ExecCommand(container_name),
                                       status |-> status])
    /\ pc' = "handler"
    /\ UNCHANGED <<SpinupFrame, outcome>>

\* except KeyboardInterrupt: the message
SpinupHandler ==
    /\ op = "spinup" /\ pc = "handler"
    /\ pc' = "finally"
    /\ UNCHANGED <<SpinupFrame, calls, outcome>>

\* a keyboard interrupt while the except clause runs: the finally clause
\* still runs, and the interrupt goes on afterwards
SpinupInterruptedInHandler ==
    /\ op = "spinup" /\ pc = "handler"
    /\ pc' = "finally"
    /\ Pending("Interrupted")
    /\ UNCHANGED <<SpinupFrame, calls>>

\* finally: the message before the container is brought down
SpinupFinally ==
    /\ op = "spinup" /\ pc = "finally"
    /\ pc' = "down"
    /\ UNCHANGED <<SpinupFrame, calls, outcome>>

\* a keyboard interrupt in the finally clause before docker compose down is
\* started: the rest of the clause is not run
SpinupInterruptedInFinally ==
    /\ op = "spinup" /\ pc = "finally"
    /\ Finish("Interrupted", "raised", FALSE)
    /\ UNCHANGED <<SpinupFrame, calls>>

\* a finally clause that ends without bringing the container down
SpinupDownSkipped ==
    /\ op = "spinup" /\ pc = "down"
    /\ IF outcome.how = "pending"
       THEN Finish(outcome.kind, "raised", FALSE)
       ELSE Finish("Success", "returned", FALSE)
    /\ UNCHANGED <<SpinupFrame, calls>>

\* docker compose down, check=False; then the pending exception, if any
SpinupDown ==
    /\ op = "spinup" /\ pc = "down"
    /\ \E status \in ExitStatuses : Invoke(DownCommand(compose_file), status)
    /\ IF outcome.how = "pending"
       THEN Finish(outcome.kind, "raised", FALSE)
       ELSE Finish("Success", "returned", FALSE)
    /\ UNCHANGED SpinupFrame

\* a keyboard interrupt while docker compose down runs, or after it
SpinupInterruptedInDown ==
    /\ op = "spinup" /\ pc = "down"
    /\ \E status \in ExitStatuses : Invoke(DownCommand(compose_file), status)
    /\ Finish("Interrupted", "raised", FALSE)
    /\ UNCHANGED SpinupFrame

NextSpinup ==
    \/ StartSpinup
    \/ SpinupCheckDocker
    \/ SpinupCheckCompose
    \/ SpinupCheckFile
    \/ SpinupInterruptedInChecks
    \/ SpinupUp
    \/ SpinupExec
    \/ SpinupInterruptedInTry
    \/ SpinupHandler
    \/ SpinupInterruptedInHandler
    \/ SpinupFinally
    \/ SpinupInterruptedInFinally
    \/ SpinupDown
    \/ SpinupInterruptedInDown
    \/ ReturnToShell

\* the compose files of the working directory; docker on PATH or not
InitSpinup ==
    /\ doc = [file |-> "none", data |-> <<>>]
    /\ descriptor = [file |-> FALSE, lines |-> <<>>]
    /\ fs \in [ComposeFiles -> {"none", "dir", "file"}]
    /\ which_docker \in BOOLEAN
    /\ session = EmptySession
    /\ Idle

SpecSpinup == InitSpinup /\ [][NextSpinup]_vars

(***************************************************************************)
(* The terms of the specification, as the specification states them.       *)
(***************************************************************************)
\* resolveBuildDirectory: binaryDir, else buildDir, else "build"
ResolvedDir(p) ==
    IF "binaryDir" \in DOMAIN p THEN p.binaryDir
    ELSE IF "buildDir" \in DOMAIN p THEN p.buildDir
    ELSE "build"

\* the driver family of a generator string: "ninja" first, then "make"
SpecFamily(g) ==
    IF Contains(Lower(g), "ninja") THEN "ninja"
    ELSE IF Contains(Lower(g), "make") THEN "make"
    ELSE "unsupported"

\* the preset list of a document: presets, or configurePresets when presets is
\* absent or empty
SpecPresetList(d) ==
    IF Get(d, "presets", <<>>) # <<>> THEN d.presets ELSE Get(d, "configurePresets", <<>>)

RECURSIVE LastSegment(_)
\* the final segment of a token split on "/"
LastSegment(s) ==
    IF \E i \in 1..Len(s) : CharAt(s, i) = "/"
    THEN LastSegment(SubSeq(s, Len(SplitHead(s, "/")) + 2, Len(s)))
    ELSE s

\* the identifier of a project( line: between "project(" and the next ")",
\* first whitespace-delimited token, final segment
SpecProjectName(line) ==
    LastSegment(FirstToken(SplitHead(SubSeq(line, Len("project(") + 1, Len(line)), ")")))

\* the lines of a descriptor that begin, case-insensitively, with project(
ProjectLines(lines) ==
    { i \in 1..Len(lines) : StartsWith(Lower(Strip(lines[i])), "project(") }

FailureKinds ==
    { "DocumentNotFound", "ParseError", "PresetNotFound", "DirectoryMissing",
      "UnsupportedGenerator", "ExecutableMissing", "SubprocessFailed",
      "DescriptorNotFound", "ProjectNameNotFound" }

LookupFailures == { "DocumentNotFound", "ParseError", "PresetNotFound" }

IsCMakeCall(c) == c.argv[1] = "cmake"
IsDriverCall(c) == c.argv[1] \in {"ninja", "make"}
DriverCalls == SelectSeq(calls, IsDriverCall)

(***************************************************************************)
(* C1                                                                      *)
(***************************************************************************)
\* C1: when build has found the preset and the preset's resolved build
\* directory (binaryDir, else buildDir, else "build") does not exist, build
\* ends with DirectoryMissing and has invoked no subprocess; the directory
\* still does not exist.
C1_BuildMissingDirectory ==
    ( /\ op = "build" /\ pc = "done"
      /\ preset # NoPreset
      /\ ~PathExists(fs, ResolvedDir(preset)) )
    => /\ outcome.kind = "DirectoryMissing"
       /\ calls = <<>>

(***************************************************************************)
(* C2                                                                      *)
(***************************************************************************)
\* the build phase of build_and_run went through: preset found, directory
\* there, driver supported and exited with status zero
BuildPhaseSucceeded ==
    /\ preset # NoPreset
    /\ PathExists(fs, build_dir)
    /\ BuildDriver(generator) # "unsupported"
    /\ Len(calls) >= 1
    /\ calls[1].argv = <<BuildDriver(generator), "-C", build_dir>>
    /\ calls[1].status = 0

\* C2: build_and_run is at run's resolution logic (the executable resolution
\* or the target execution) only after its build phase succeeded; when the
\* build phase failed it ends with the build's failure, the executable
\* neither inferred nor launched.
C2_NoRunAfterFailedBuild ==
    op = "build-run" =>
       /\ pc \in {"resolve", "execute"} => BuildPhaseSucceeded
       /\ (pc = "done" /\ ~BuildPhaseSucceeded) =>
             /\ outcome.kind \in LookupFailures
                    \cup {"DirectoryMissing", "UnsupportedGenerator", "SubprocessFailed"}
             /\ executable = exe_arg
             /\ \A i \in 1..Len(calls) : IsDriverCall(calls[i])

\* build_and_run ended on a non-zero exit of the build driver
C2_Witness ==
    /\ op = "build-run" /\ pc = "done"
    /\ Len(calls) = 1 /\ calls[1].status # 0
    /\ outcome.kind = "SubprocessFailed"

(***************************************************************************)
(* C3                                                                      *)
(***************************************************************************)
\* the driver selection of the operation has been made
DriverStepDone ==
    \/ op = "generate" /\ pc = "done" /\ Len(calls) >= 1 /\ calls[1].status = 0
    \/ /\ op = "build" /\ pc = "done"
       /\ outcome.kind \notin LookupFailures \cup {"DirectoryMissing"}
    \/ /\ op = "build-run" /\ pc \in {"resolve", "execute", "done"}
       /\ outcome.kind \notin LookupFailures \cup {"DirectoryMissing"}

\* C3: in generate_and_build, build and build_and_run the driver invoked is
\* the family of the preset's generator by case-insensitive substring match,
\* ninja before make; a generator of neither family gives
\* UnsupportedGenerator and no driver invocation.
C3_DriverBySubstring ==
    DriverStepDone =>
       LET family == SpecFamily(Get(preset, "generator", "Ninja"))
       IN  IF family = "unsupported"
           THEN DriverCalls = <<>> /\ outcome.kind = "UnsupportedGenerator"
           ELSE Len(DriverCalls) = 1 /\ DriverCalls[1].argv[1] = family

(***************************************************************************)
(* C4                                                                      *)
(***************************************************************************)
\* C4: when build has found a preset without a generator field whose resolved
\* build directory is an existing directory, build has invoked exactly
\* ninja -C <resolved directory>.
C4_DefaultGeneratorNinja ==
    ( /\ op = "build" /\ pc = "done"
      /\ preset # NoPreset
      /\ "generator" \notin DOMAIN preset
      /\ Kind(fs, ResolvedDir(preset)) = "dir" )
    => /\ Len(calls) = 1
       /\ calls[1].argv = <<"ninja", "-C", ResolvedDir(preset)>>

(***************************************************************************)
(* C5                                                                      *)
(***************************************************************************)
\* C5: in every operation the build directory taken from the preset is its
\* binaryDir, else its buildDir, else "build".
C5_SameResolution ==
    (pc \notin {"idle", "lookup"} /\ preset # NoPreset) => build_dir = ResolvedDir(preset)

(***************************************************************************)
(* C6                                                                      *)
(***************************************************************************)
\* C6: the lookup of every operation gives the first preset of that name in
\* the list under presets, or under configurePresets when presets is absent
\* or empty (and fails when that list has none).
C6_SamePrecedence ==
    (doc.file = "json" /\ pc \notin {"idle", "lookup"})
    => preset = FirstNamed(SpecPresetList(doc.data), preset_name)

(***************************************************************************)
(* C7                                                                      *)
(***************************************************************************)
\* C7: when the descriptor has one project( line and the executable is
\* inferred, the inferred path is the build directory joined with the final
\* "/"-segment of the first token between project( and the next ")".
C7_FinalSegment ==
    ( /\ op \in {"run", "build-run"} /\ pc = "execute"
      /\ exe_arg = ""
      /\ Cardinality(ProjectLines(descriptor.lines)) = 1 )
    => LET i == CHOOSE j \in ProjectLines(descriptor.lines) : TRUE
       IN  executable = JoinPath(build_dir, SpecProjectName(Strip(descriptor.lines[i])))

(***************************************************************************)
(* C8                                                                      *)
(***************************************************************************)
\* C8 as stated: run without --executable and without CMakeLists.txt ends
\* with DescriptorNotFound and has invoked no subprocess.
C8_Original ==
    (op = "run" /\ pc = "done" /\ exe_arg = "" /\ ~descriptor.file)
    => outcome.kind = "DescriptorNotFound" /\ calls = <<>>

\* C8 amended: run without --executable and without CMakeLists.txt never
\* invokes a subprocess and ends, returning, with a reported failure:
\* DescriptorNotFound exactly when its preset lookup succeeded and the build
\* directory it resolved exists, else the lookup failure or DirectoryMissing.
C8_NoDescriptor ==
    (op = "run" /\ exe_arg = "" /\ ~descriptor.file)
    => /\ calls = <<>>
       /\ pc = "done" =>
             /\ outcome.how = "returned" /\ outcome.printed
             /\ IF preset = NoPreset THEN outcome.kind \in LookupFailures
                ELSE IF ~PathExists(fs, build_dir) THEN outcome.kind = "DirectoryMissing"
                ELSE outcome.kind = "DescriptorNotFound"

\* run got as far as the descriptor and did not find it
C8_Witness ==
    /\ op = "run" /\ pc = "done" /\ exe_arg = "" /\ ~descriptor.file
    /\ preset # NoPreset /\ PathExists(fs, build_dir)
    /\ outcome.kind = "DescriptorNotFound"

(***************************************************************************)
(* C9                                                                      *)
(***************************************************************************)
\* C9: every failure of every operation is printed and the operation returns
\* normally: no exception leaves it and the process is not terminated.
C9_FailuresReturn ==
    (pc = "done" /\ outcome.kind \in FailureKinds)
    => outcome.how = "returned" /\ outcome.printed

(***************************************************************************)
(* C10                                                                     *)
(***************************************************************************)
\* C10: in generate_and_build cmake is invoked once, first; the build driver
\* is invoked only after cmake exited with status zero; a non-zero exit ends
\* the operation with SubprocessFailed and no further invocation; after a
\* zero exit the operation is at the chained build, which ends it with the
\* driver invoked or with UnsupportedGenerator.
C10_BuildAfterConfigure ==
    op = "generate" =>
       /\ Len(calls) <= 2
       /\ \A i \in 1..Len(calls) : IsCMakeCall(calls[i]) <=> i = 1
       /\ Len(calls) = 2 => calls[1].status = 0 /\ IsDriverCall(calls[2])
       /\ (Len(calls) >= 1 /\ calls[1].status # 0) =>
             /\ pc = "done" /\ outcome.kind = "SubprocessFailed"
             /\ Len(calls) = 1
       /\ (Len(calls) >= 1 /\ calls[1].status = 0) =>
             \/ pc = "driver" /\ Len(calls) = 1
             \/ pc = "done" /\ Len(calls) = 2
             \/ pc = "done" /\ Len(calls) = 1 /\ outcome.kind = "UnsupportedGenerator"

\* generate_and_build ran the build driver after a successful cmake
C10_Witness ==
    /\ op = "generate" /\ pc = "done"
    /\ Len(calls) = 2 /\ calls[1].status = 0 /\ IsDriverCall(calls[2])

(***************************************************************************)
(* C11                                                                     *)
(***************************************************************************)
IsTargetCall(c) == Len(c.argv) = 1

\* C11: once run or build_and_run has launched the target executable, the
\* operation ends with success and returns, whatever the exit status of the
\* target; a non-zero exit of cmake or of the build driver ends the
\* operation with SubprocessFailed.
C11_TargetStatusIgnored ==
    \A i \in 1..Len(calls) :
        /\ IsTargetCall(calls[i]) =>
              /\ op \in {"run", "build-run"}
              /\ i = Len(calls)
              /\ pc = "done"
              /\ outcome = [kind |-> "Success", how |-> "returned", printed |-> FALSE]
        /\ (~IsTargetCall(calls[i]) /\ calls[i].status # 0) =>
              /\ i = Len(calls)
              /\ pc = "done"
              /\ outcome.kind = "SubprocessFailed"

\* run launched the target and the target exited with a non-zero status
C11_Witness ==
    /\ op = "run" /\ pc = "done"
    /\ Len(calls) = 1 /\ IsTargetCall(calls[1]) /\ calls[1].status # 0
    /\ outcome.kind = "Success"

(***************************************************************************)
(* C12                                                                     *)
(***************************************************************************)
\* C12: when the preset lookup of build fails, build ends there, returning
\* with the lookup failure printed: no subprocess is invoked, no build
\* directory is resolved or checked, and the filesystem is as build found it.
C12_BuildStopsOnLookupFailure ==
    (op = "build" /\ pc # "lookup" /\ preset = NoPreset)
    => /\ pc = "done"
       /\ outcome.kind \in LookupFailures
       /\ outcome.how = "returned" /\ outcome.printed
       /\ calls = <<>>
       /\ build_dir = ""
       /\ fs = fs0

\* build did not find the preset in an existing, well-formed document
C12_Witness ==
    /\ op = "build" /\ pc = "done"
    /\ doc.file = "json"
    /\ outcome.kind = "PresetNotFound"

(***************************************************************************)
(* C13                                                                     *)
(***************************************************************************)
\* C13: run has launched the target only if the resolved build directory
\* (binaryDir, else buildDir, else "build") exists and the executable path is
\* a regular file; with the resolved directory missing run ends with
\* DirectoryMissing, also for an explicit executable that exists; with the
\* executable path missing or not a regular file it ends with
\* ExecutableMissing; in both cases without a subprocess.
C13_RunChecksDirThenExecutable ==
    (op = "run" /\ preset # NoPreset) =>
       /\ calls # <<>> =>
             /\ PathExists(fs, ResolvedDir(preset))
             /\ IsFile(fs, executable)
       /\ (pc = "done" /\ ~PathExists(fs, ResolvedDir(preset))) =>
             /\ outcome.kind = "DirectoryMissing"
             /\ calls = <<>>
       /\ (pc = "done" /\ PathExists(fs, ResolvedDir(preset))
             /\ outcome.kind \notin {"DescriptorNotFound", "ProjectNameNotFound"}
             /\ ~IsFile(fs, executable)) =>
             /\ outcome.kind = "ExecutableMissing"
             /\ calls = <<>>

(***************************************************************************)
(* C14                                                                     *)
(***************************************************************************)
\* C14: after a successful generate_and_build of a preset, build and run of
\* that preset take the directory that generate_and_build created and built
\* in, and build does not end with DirectoryMissing.
C14_ConfiguredDirectory ==
    ( /\ op \in {"build", "run"}
      /\ Filled(session.configured)
      /\ session.configured.name = preset_name )
    => /\ (pc \notin {"idle", "lookup"} /\ preset # NoPreset) =>
             build_dir = session.configured.dir
       /\ (op = "build" /\ pc = "done") => outcome.kind # "DirectoryMissing"

(***************************************************************************)
(* C15                                                                     *)
(***************************************************************************)
\* the driver exited alike in build and in build-run, and the target alike
\* in run and in build-run
SameExits(b, r, x) ==
    /\ (b.calls # <<>> /\ x.calls # <<>>) => b.calls[1].status = x.calls[1].status
    /\ (r.calls # <<>> /\ Len(x.calls) = 2) => r.calls[1].status = x.calls[2].status

\* build, and then run unless build failed
Sequenced(b, r) ==
    IF b.outcome.kind # "Success"
    THEN [calls |-> b.calls, outcome |-> b.outcome]
    ELSE [calls |-> b.calls \o r.calls, outcome |-> r.outcome]

FirstOf(S) == CHOOSE i \in S : \A j \in S : i <= j

\* the project( lines with something other than blanks between project( and
\* the next ")"
NamedProjectLines(lines) ==
    { i \in ProjectLines(lines) :
        Strip(SplitHead(SubSeq(Strip(lines[i]), Len("project(") + 1, Len(Strip(lines[i]))), ")")) # "" }

\* the executable has been inferred from the descriptor
Inferred == op \in {"run", "build-run"} /\ exe_arg = "" /\ pc = "execute"

\* the path inferred from line i of the descriptor
InferredFrom(i) == JoinPath(build_dir, ProjectNameOfLine(Strip(descriptor.lines[i])))

\* C16 as stated: the inferred executable is the one the first project( line
\* of the descriptor gives, whatever follows that line, and the extraction
\* fails with ProjectNameNotFound only when the descriptor has no project(
\* line.
C16_Original ==
    /\ Inferred =>
          /\ ProjectLines(descriptor.lines) # {}
          /\ executable = InferredFrom(FirstOf(ProjectLines(descriptor.lines)))
    /\ outcome.kind = "ProjectNameNotFound" => ProjectLines(descriptor.lines) = {}

\* C16 amended: the inferred executable is the one given by the first
\* project( line that has a name between its parentheses, whatever follows
\* that line, and the extraction fails with ProjectNameNotFound only when the
\* descriptor has no such line.
C16_FirstNamedLine ==
    /\ Inferred =>
          /\ NamedProjectLines(descriptor.lines) # {}
          /\ executable = InferredFrom(FirstOf(NamedProjectLines(descriptor.lines)))
    /\ outcome.kind = "ProjectNameNotFound" => NamedProjectLines(descriptor.lines) = {}

\* a name was inferred from a line that follows an empty project() line
C16_Witness ==
    /\ Inferred
    /\ NamedProjectLines(descriptor.lines) # {}
    /\ FirstOf(ProjectLines(descriptor.lines)) < FirstOf(NamedProjectLines(descriptor.lines))
    /\ executable # JoinPath(build_dir, "")

(***************************************************************************)
(* C17                                                                     *)
(***************************************************************************)
PrecheckFailures == {"DockerMissing", "ComposeMissing", "ComposeFileMissing"}

\* the number of calls with the given command line
Count(argv) == Cardinality({ i \in 1..Len(calls) : calls[i].argv = argv })

\* neither up nor down has been invoked
NoUpNoDown ==
    \A i \in 1..Len(calls) : calls[i].argv \in {VersionCommand, ExecCommand(container_name)}

\* spinup ends with this step
SpinupEnds == op = "spinup" /\ pc # "done" /\ pc' = "done"

====
